---- MODULE Spec2Model ----
(***************************************************************************)
(* punchpy: a card-scan clock in/out ledger kept in one SQLite file that   *)
(* three front-ends open directly: the console demo (demo.py), the desktop *)
(* GUI (clock_gui.py) and the admin panel (webui.py).                      *)
(*                                                                         *)
(* A card token and a name are sequences of one-character strings.  The    *)
(* committed content of the two tables is `users` and `clock_events`;      *)
(* every front-end is a process whose position is pc[p] and whose locals   *)
(* are loc[p]; `out` is the feedback most recently rendered, and by whom.  *)
(* conn[p] counts the connections to the file that process p has open, and *)
(* tells whether one of them is inside a transaction that holds the write  *)
(* lock; `gc` is when the interpreter finalises a connection that a call   *)
(* left open: "eager", before the next statement of any process, or        *)
(* "lazy", at some later collection.  `widgets` is the window of the GUI:   *)
(* the list box, the status display and the timers of Tk.  `web` is the     *)
(* admin panel's side of its browser: the accounts, the sessions map, the   *)
(* session id in the browser's storage and the dialog that is open.         *)
(***************************************************************************)
EXTENDS Integers, Sequences, FiniteSets, TLC

VARIABLES users, clock_events, clock, pc, loc, out, conn, gc, widgets, web

vars == <<users, clock_events, clock, pc, loc, out, conn, gc, widgets, web>>

\* ---------------------------------------------------------------- bounds
\* The largest row id handed out in users and in clock_events, and the last
\* second of the clock.
MaxUserId == 2
MaxEventId == 3
MaxClock == 1
\* The most connections one process is let to hold open at a time.
MaxConns == 2
\* The most session ids the admin panel makes.
MaxSessions == 2

\* ------------------------------------------------------ program constants
MinUidLen == 2
MaxUidLen == 64
AdminLimit == 1000
DefaultUserLimit == 10
DefaultAllLimit == 20
GuiLimit == 8
DashboardRecent == 10
SecondsPerDay == 86400
ActivityLimit == 8
ResetDelay == 3

Procs == {"gui", "console", "admin"}
Scanners == {"gui", "console"}

Rep(n) == [i \in 1..n |-> "x"]

\* What an operator can type into a card field, and into a name field.
CardInputs == {<<>>, <<"A">>, <<"A", " ">>, <<"A", "B">>, Rep(64), Rep(65)}
NameInputs == {<<>>, <<"X">>}

\* ------------------------------------------------------------ str.strip()
RECURSIVE LStrip(_)
LStrip(s) == IF s # <<>> /\ Head(s) = " " THEN LStrip(Tail(s)) ELSE s

RECURSIVE RStrip(_)
RStrip(s) == IF s # <<>> /\ s[Len(s)] = " " THEN RStrip(SubSeq(s, 1, Len(s) - 1)) ELSE s

Strip(s) == RStrip(LStrip(s))

\* ------------------------------------------------------ validate_card_uid
validate_card_uid(card_uid) ==
    IF card_uid = <<>> THEN FALSE
    ELSE IF Len(card_uid) < MinUidLen \/ Len(card_uid) > MaxUidLen THEN FALSE
    ELSE TRUE

\* ------------------------------------------------------------- the tables
SetMax(S) == CHOOSE m \in S : \A x \in S : x <= m

\* INTEGER PRIMARY KEY without AUTOINCREMENT: one more than the largest
\* rowid present, so the id of a deleted last row is handed out again.
NewRowId(rows) == IF rows = {} THEN 1 ELSE SetMax({r.id : r \in rows}) + 1

\* A users table declared without UNIQUE on card_uid.
UniqueCardNotEnforced(us, card_uid) == FALSE

\* card_uid TEXT UNIQUE: the INSERT is rejected when a row holds the token.
UniqueCardViolated(us, card_uid) == \E u \in us : u.card_uid = card_uid

InsertUser(us, card_uid, name) ==
    us \cup {[id |-> NewRowId(us), card_uid |-> card_uid, name |-> name]}

\* An UPDATE that is not checked against the tokens of the other rows.
UpdateCardUnchecked(us, user_id, card_uid) == FALSE

\* UPDATE users SET card_uid = ?, name = ? WHERE id = ?
UpdateCardViolated(us, user_id, card_uid) ==
    /\ \E u \in us : u.id = user_id
    /\ \E u \in us : u.id # user_id /\ u.card_uid = card_uid

UpdateUserRows(us, user_id, card_uid, name) ==
    {IF u.id = user_id THEN [u EXCEPT !.card_uid = card_uid, !.name = name] ELSE u : u \in us}

InsertEvent(evs, user_id, event_type, now) ==
    evs \cup {[id |-> NewRowId(evs), user_id |-> user_id,
               event_type |-> event_type, timestamp |-> now]}

EventsOf(evs, user_id) == {e \in evs : e.user_id = user_id}

UserRows(us, user_id) == {u \in us : u.id = user_id}

\* delete_user without its first statement, the events left to a cascade
\* the schema does not declare.
DeletedEventRowsNone(evs, user_id) == {}

\* delete_user whose second statement matches no row.
DeletedUserRowsNone(us, user_id) == {}

\* The first statement of delete_user without its WHERE clause.
DeletedEventRowsAll(evs, user_id) == evs

\* DELETE FROM clock_events WHERE user_id = ?
DeletedEventRows(evs, user_id) == EventsOf(evs, user_id)

\* DELETE FROM users WHERE id = ?
DeletedUserRows(us, user_id) == UserRows(us, user_id)

\* The lookup without its WHERE clause: the first row of the table.
get_user_by_card_any(us, card_uid) ==
    IF us = {} THEN [id |-> 0, card_uid |-> <<>>, name |-> <<>>]
    ELSE CHOOSE u \in us : \A v \in us : u.id <= v.id

\* SELECT id, name FROM users WHERE card_uid = ? ; fetchone()
NoUser == [id |-> 0, card_uid |-> <<>>, name |-> <<>>]

get_user_by_card(us, card_uid) ==
    IF \E u \in us : u.card_uid = card_uid
    THEN CHOOSE u \in us : u.card_uid = card_uid
    ELSE NoUser

\* SELECT event_type ... WHERE user_id = ? ORDER BY timestamp DESC LIMIT 1:
\* the rows the statement may return. CURRENT_TIMESTAMP has a resolution of
\* one second and the order of rows with equal timestamps is unspecified.
LastEventRows(evs, user_id) ==
    {e \in EventsOf(evs, user_id) : \A f \in EventsOf(evs, user_id) : f.timestamp <= e.timestamp}

\* The values get_last_event may return.
get_last_event(evs, user_id) ==
    IF EventsOf(evs, user_id) = {} THEN {"none"}
    ELSE {e.event_type : e \in LastEventRows(evs, user_id)}

\* DATE(c.timestamp), as the number of the day. CURRENT_TIMESTAMP and
\* date.today() are taken to tell the same day (a host on UTC).
DateOf(timestamp) == timestamp \div SecondsPerDay

\* A date filter that is not given; a given one is <<day>>.
NoDate == <<>>

\* clock_events c JOIN users u ON c.user_id = u.id
JoinedRows(us, evs) == {e \in evs : \E u \in us : u.id = e.user_id}

UserName(us, user_id) == (CHOOSE u \in us : u.id = user_id).name

\* get_clock_events: the rows of the join that pass the filters;
\* user_id = 0 is the call without one ("if user_id:" is false).
ClockEventRows(us, evs, user_id, start_date, end_date) ==
    {e \in JoinedRows(us, evs) :
        /\ (user_id = 0 \/ e.user_id = user_id)
        /\ (start_date = NoDate \/ DateOf(e.timestamp) >= start_date[1])
        /\ (end_date = NoDate \/ DateOf(e.timestamp) <= end_date[1])}

\* The rows of a table in the order of their rowids.
RowIds(rows) == {r.id : r \in rows}

TableScan(rows) ==
    IF rows = {} THEN <<>>
    ELSE LET ids == SelectSeq([i \in 1..SetMax(RowIds(rows)) |-> i],
                              LAMBDA i : i \in RowIds(rows))
         IN  [k \in 1..Len(ids) |-> CHOOSE r \in rows : r.id = ids[k]]

\* The rows that share their timestamp with another row, and the orders the
\* engine may give them: ORDER BY leaves the order of equal keys unspecified.
Tied(rows) == {e \in rows : \E f \in rows : f # e /\ f.timestamp = e.timestamp}

TieOrders(rows) ==
    {g \in [Tied(rows) -> 1..Cardinality(Tied(rows))] :
        \A a, b \in Tied(rows) : a # b => g[a] # g[b]}

\* ORDER BY timestamp DESC: every order of the rows that respects it.
NewestFirst(rows) ==
    {SortSeq(TableScan(rows),
             LAMBDA a, b : (a.timestamp > b.timestamp)
                           \/ (a.timestamp = b.timestamp /\ g[a] < g[b])) :
        g \in TieOrders(rows)}

Take(f, n) == IF Len(f) <= n THEN f ELSE SubSeq(f, 1, n)

\* LIMIT n: a negative n is no limit at all.
Limit(f, n) == IF n < 0 THEN f ELSE Take(f, n)

\* The lists get_clock_events may return: ... LIMIT 1000, each row as
\* {id, name, event_type, timestamp}.
get_clock_events(us, evs, user_id, start_date, end_date) ==
    {[k \in 1..Len(f) |-> [id |-> f[k].id, name |-> UserName(us, f[k].user_id),
                           event_type |-> f[k].event_type, timestamp |-> f[k].timestamp]] :
        f \in {Limit(g, AdminLimit) :
                 g \in NewestFirst(ClockEventRows(us, evs, user_id, start_date, end_date))}}

\* demo.py get_user_events: (event_type, timestamp) of the events of a user.
get_user_events(evs, user_id, limit) ==
    {[k \in 1..Len(f) |-> <<f[k].event_type, f[k].timestamp>>] :
        f \in {Limit(g, limit) : g \in NewestFirst(EventsOf(evs, user_id))}}

\* demo.py get_all_events: (name, event_type, timestamp) over the join.
get_all_events(us, evs, limit) ==
    {[k \in 1..Len(f) |-> <<UserName(us, f[k].user_id), f[k].event_type, f[k].timestamp>>] :
        f \in {Limit(g, limit) : g \in NewestFirst(JoinedRows(us, evs))}}

\* clock_gui.py load_recent_activity: the same query with LIMIT 8.
load_recent_activity(us, evs) == get_all_events(us, evs, GuiLimit)

\* SELECT id, card_uid, name, created_at FROM users ORDER BY name, as the
\* set of the rows: the callers modelled here only count them.
get_users(us) == us

\* currently_in(): the identities whose last_event_kind is `in`. No front-end
\* has the query; it is the contract's, over get_last_event. The sets it may
\* return, one for every way get_last_event may answer.
currently_in(us, evs) ==
    {{u \in us : answer[u] = "in"} :
        answer \in {a \in [us -> UNION {get_last_event(evs, u.id) : u \in us}] :
                       \A u \in us : a[u] \in get_last_event(evs, u.id)}}

\* event_type = "out" if last_event == "in" else "in"
Toggle(last_event) == IF last_event = "in" THEN "out" ELSE "in"

\* ------------------------------------------------------------- feedback
Feedback(p, msg, detail) == [by |-> p, msg |-> msg, detail |-> detail]
NoFeedback == Feedback("none", "none", "none")

NoLoc == [user_id |-> 0, card_uid |-> <<>>, name |-> <<>>, last_event |-> "none"]

\* -------------------------------------------------------- the GUI window
\* ClockApp.__init__ followed by load_recent_activity: the list box holds the
\* entries loaded, the status display is idle and no timer is scheduled.
\* status_timer = 0 is None; shown_for is the time in seconds, up to
\* ResetDelay, since the status display was last written.
ClockApp(entries) ==
    [watched |-> TRUE, activity_list |-> entries, status |-> "idle", message |-> <<>>,
     status_timer |-> 0, timers |-> {}, shown_for |-> ResetDelay]

\* The window is written by the scans and read back by show_status and by the
\* size test of the list box only, never by the ledger: the specifications that
\* are not about the window leave it unwatched, its fields as they are.
Unwatched == [ClockApp(<<>>) EXCEPT !.watched = FALSE]

Watch(w) == IF widgets.watched THEN w ELSE widgets

\* The text of message_label: what is said, of whom (a name or a card), and
\* the kind of the event.
Message(text, who, event_type) == [text |-> text, who |-> who, event_type |-> event_type]

\* strftime("%H:%M:%S") of a timestamp: the time of the day, without the day.
TimeOfDay(timestamp) == timestamp % SecondsPerDay

\* f"{current_time} - {name} clocked {event_type}"
ActivityEntry(timestamp, name, event_type) == <<TimeOfDay(timestamp), name, event_type>>

\* The loop of load_recent_activity over the rows (name, event_type, timestamp).
LoadedEntries(events) ==
    [k \in 1..Len(events) |-> ActivityEntry(events[k][3], events[k][1], events[k][2])]

\* Listbox.delete(index), the index counted from 0.
ListboxDelete(list, index) ==
    IF index + 1 > Len(list) THEN list
    ELSE SubSeq(list, 1, index) \o SubSeq(list, index + 2, Len(list))

\* The limit applied at the wrong end: the entry just inserted is deleted.
InsertActivityDropNewest(w, entry) ==
    LET list == <<entry>> \o w.activity_list
    IN  [w EXCEPT !.activity_list =
            IF Len(list) > ActivityLimit THEN ListboxDelete(list, 0) ELSE list]

\* activity_list.insert(0, ...); if activity_list.size() > 8: delete(8)
InsertActivity(w, entry) ==
    LET list == <<entry>> \o w.activity_list
    IN  [w EXCEPT !.activity_list =
            IF Len(list) > ActivityLimit THEN ListboxDelete(list, ActivityLimit) ELSE list]

\* root.after: an identifier that no pending timer has and that differs from
\* the one held in status_timer.
AfterId(w) ==
    CHOOSE i \in 1..(Cardinality(w.timers) + 2) :
        /\ i # w.status_timer
        /\ \A t \in w.timers : t.id # i
        /\ \A j \in 1..(i - 1) : j = w.status_timer \/ \E t \in w.timers : t.id = j

\* show_status that schedules the reset without cancelling the pending one.
show_status_no_cancel(w, success, message) ==
    [w EXCEPT !.status = IF success THEN "success" ELSE "failure",
              !.message = message,
              !.timers = w.timers \cup {[id |-> AfterId(w), left |-> ResetDelay]},
              !.status_timer = AfterId(w),
              !.shown_for = 0]

\* show_status: after_cancel of the pending reset, the colours and the texts,
\* and after(3000, reset_status).
show_status(w, success, message) ==
    [w EXCEPT !.status = IF success THEN "success" ELSE "failure",
              !.message = message,
              !.timers = {t \in w.timers : w.status_timer = 0 \/ t.id # w.status_timer}
                            \cup {[id |-> AfterId(w), left |-> ResetDelay]},
              !.status_timer = AfterId(w),
              !.shown_for = 0]

reset_status(w) ==
    [w EXCEPT !.status = "idle", !.message = <<>>, !.status_timer = 0]

\* ------------------------------------------------- the admin panel's login
\* hashlib.sha256(password.encode()).hexdigest(): one digest for each password.
hash_password(password) == <<"sha256", password>>

verify_password(plain_password, hashed_password) == hash_password(plain_password) = hashed_password

\* setup_admin_database: the default account.
DefaultAdmin == [username |-> "admin", password_hash |-> hash_password("admin123"), role |-> "admin"]

\* No dialog is open; an open one is of kind "edit" or "delete" and holds the
\* row of the users table it was opened on.
NoDialog == [kind |-> "none", user |-> [id |-> 0, card_uid |-> <<>>, name |-> <<>>]]

\* get_admin_user: the account of the name, or none.
NoAdmin == [username |-> "", password_hash |-> <<>>, role |-> ""]

get_admin_user(admin_users, username) ==
    IF \E a \in admin_users : a.username = username
    THEN CHOOSE a \in admin_users : a.username = username
    ELSE NoAdmin

\* The wrapper of login_required(role): "run" when the body of the handler is
\* run, "login" when the caller is sent to /login, "no_permission" when the
\* role of the session is not the one required. role = "" is no role.
login_required(w, role) ==
    IF w.session_id = 0 \/ ~\E x \in w.sessions : x.id = w.session_id
    THEN "login"
    ELSE IF role # "" /\ (CHOOSE x \in w.sessions : x.id = w.session_id).role # role
    THEN "no_permission"
    ELSE "run"

\* The panel before any login; session_id = 0 is a storage without one, and
\* issued counts the session ids made so far.
SignedOut ==
    [admin_users |-> {DefaultAdmin}, sessions |-> {}, session_id |-> 0,
     dialog |-> NoDialog, issued |-> 0]

\* The panel after the login of the default account.
SignedIn ==
    [SignedOut EXCEPT !.sessions = {[id |-> 1, username |-> "admin", role |-> "admin"]},
                      !.session_id = 1, !.issued = 1]

\* ----------------------------------------------------------- connections
NoConn == [open |-> 0, txn |-> FALSE]

\* The write lock of the database file: held by a connection from its first
\* write statement until its commit, its rollback or its close.
Locked == \E p \in Procs : conn[p].txn

\* conn = sqlite3.connect(DB_FILE)
Connect(p) == [conn EXCEPT ![p].open = @ + 1]

\* conn.close(), which also ends the transaction of the connection.
Close(p) == [conn EXCEPT ![p] = [open |-> @.open - 1, txn |-> FALSE]]

\* A call of p that opened a connection returns through an except branch or
\* raises: no path but the successful one reaches conn.close(). The
\* connection stays open, inside its transaction when it had begun one
\* (holds), until the interpreter finalises it.
Unclosed(p, holds) == [conn EXCEPT ![p] = [open |-> @.open + 1, txn |-> @.txn \/ holds]]

\* The connections of p after a call that connects, executes one statement
\* and commits, by the outcome of the call. An IntegrityError comes from a
\* statement that had taken the write lock; any other exception may come from
\* connect (no connection), from a statement that found the lock held, or
\* from one that had taken it. A read ("read") takes no write lock.
ExitConn(p, err) ==
    IF err = "none" \/ gc = "eager" THEN {conn}
    ELSE IF err = "integrity" THEN {Unclosed(p, TRUE)}
    ELSE IF err = "read" THEN {conn, Unclosed(p, FALSE)}
    ELSE {conn, Unclosed(p, FALSE)} \cup (IF Locked THEN {} ELSE {Unclosed(p, TRUE)})

\* The connections of p that a running call of p still refers to.
InUse(p) == IF p = "admin" /\ pc[p] \in {"delete_events", "delete_user", "commit"} THEN 1 ELSE 0

InitLedger ==
    /\ users = {}
    /\ clock_events = {}
    /\ clock = 0
    /\ pc = [p \in Procs |-> "idle"]
    /\ loc = [p \in Procs |-> NoLoc]
    /\ out = NoFeedback
    /\ conn = [p \in Procs |-> NoConn]
    /\ widgets = Unwatched

\* A connection left open takes nothing but successes away from the calls
\* that follow, and every write may fail as it is: the specifications that
\* are not about connections run with the eager interpreter.
Init == InitLedger /\ gc = "eager" /\ web = SignedIn

InitAnyInterpreter == InitLedger /\ gc \in {"eager", "lazy"} /\ web = SignedIn

\* CURRENT_TIMESTAMP moves on by a second.
Tick ==
    /\ clock < MaxClock
    /\ clock' = clock + 1
    /\ UNCHANGED <<users, clock_events, pc, loc, out, conn, gc, widgets, web>>

Goto(p, label, l) == pc' = [pc EXCEPT ![p] = label] /\ loc' = [loc EXCEPT ![p] = l]

\* ------------------------------------------------------ the SQL statements
\* Each operator gives the outcomes of one execute-and-commit: "error" is any
\* exception of the storage layer, which includes the busy timeout of a
\* statement that finds the write lock held.
ExecInsertUser(us, card_uid, name, locked) ==
    {[err |-> "error", users |-> us]}
    \cup (IF locked THEN {}
          ELSE IF UniqueCardViolated(us, card_uid)
               THEN {[err |-> "integrity", users |-> us]}
               ELSE {[err |-> "none", users |-> InsertUser(us, card_uid, name)]})

\* UPDATE OR REPLACE: the row that holds the token is deleted to make room.
ExecUpdateUserOrReplace(us, user_id, card_uid, name, locked) ==
    {[err |-> "error", users |-> us]}
    \cup (IF locked THEN {}
          ELSE {[err |-> "none",
                 users |-> UpdateUserRows({u \in us : u.id = user_id \/ u.card_uid # card_uid},
                                          user_id, card_uid, name)]})

ExecUpdateUser(us, user_id, card_uid, name, locked) ==
    {[err |-> "error", users |-> us]}
    \cup (IF locked THEN {}
          ELSE IF UpdateCardViolated(us, user_id, card_uid)
               THEN {[err |-> "integrity", users |-> us]}
               ELSE {[err |-> "none", users |-> UpdateUserRows(us, user_id, card_uid, name)]})

ExecInsertEvent(evs, user_id, event_type, now, locked) ==
    {[err |-> "error", events |-> evs]}
    \cup (IF locked THEN {}
          ELSE {[err |-> "none", events |-> InsertEvent(evs, user_id, event_type, now)]})

\* demo.py add_user: False on IntegrityError and on any other exception.
add_user(us, card_uid, name, locked) ==
    {[ret |-> o.err = "none", err |-> o.err, users |-> o.users] :
        o \in ExecInsertUser(us, card_uid, name, locked)}

\* webui.py add_user: every exception is reported alike.
webui_add_user(us, card_uid, name, locked) ==
    {[ret |-> o.err = "none", err |-> o.err, users |-> o.users] :
        o \in ExecInsertUser(us, card_uid, name, locked)}

update_user(us, user_id, card_uid, name, locked) ==
    {[ret |-> o.err = "none", err |-> o.err, users |-> o.users] :
        o \in ExecUpdateUser(us, user_id, card_uid, name, locked)}

\* record_clock_event made to serialise the toggle: it reads the last event
\* again inside its own transaction and inserts the opposite of that.
record_clock_event_serialised(evs, user_id, event_type, now, locked) ==
    {[ret |-> o.err = "none", err |-> o.err, events |-> o.events] :
        o \in UNION {ExecInsertEvent(evs, user_id, Toggle(last_event), now, locked) :
                        last_event \in get_last_event(evs, user_id)}}

\* record_clock_event that returns True from its except branch too.
record_clock_event_unchecked(evs, user_id, event_type, now, locked) ==
    {[ret |-> TRUE, err |-> o.err, events |-> o.events] :
        o \in ExecInsertEvent(evs, user_id, event_type, now, locked)}

\* record_clock_event, the same in demo.py and clock_gui.py.
record_clock_event(evs, user_id, event_type, now, locked) ==
    {[ret |-> o.err = "none", err |-> o.err, events |-> o.events] :
        o \in ExecInsertEvent(evs, user_id, event_type, now, locked)}

\* A connection in autocommit mode (isolation_level=None): every statement is
\* committed as it is executed.
CommittedAfterExecuteAutocommit(rows, deleted) == rows \ deleted

\* What other connections see of a table after a DELETE was executed inside
\* the implicit transaction of the connection, before its commit: the rows
\* are still there.
CommittedAfterExecute(rows, deleted) == rows

CommittedAfterCommit(rows, deleted) == rows \ deleted

\* ------------------------------------------------------------ the console
\* main(), choice "1".
ConsoleAddUser(card_in, name_in) ==
    /\ pc["console"] = "idle"
    /\ LET card_uid == Strip(card_in)
           name == Strip(name_in)
       IN  IF ~validate_card_uid(card_uid)
           THEN /\ out' = Feedback("console", "invalid_uid", "none")
                /\ UNCHANGED <<users, conn>>
           ELSE IF name = <<>>
           THEN /\ out' = Feedback("console", "empty_name", "none")
                /\ UNCHANGED <<users, conn>>
           ELSE \E o \in add_user(users, card_uid, name, Locked) :
                /\ \A u \in o.users : u.id <= MaxUserId
                /\ users' = o.users
                /\ out' = Feedback("console",
                                   IF o.ret THEN "added"
                                   ELSE IF o.err = "integrity" THEN "duplicate"
                                   ELSE "add_failed", "none")
                /\ \E c \in ExitConn("console", o.err) :
                      c["console"].open <= MaxConns /\ conn' = c
    /\ UNCHANGED <<clock_events, clock, pc, loc, gc, widgets, web>>

\* process_scan and process_card up to the lookup of the card.
ScanLookup(p, card_uid) ==
    LET user == get_user_by_card(users, card_uid)
    IN  IF user = NoUser
        THEN /\ out' = Feedback(p, "unknown_card", "none")
             /\ UNCHANGED <<pc, loc>>
        ELSE /\ Goto(p, "get_last", [NoLoc EXCEPT !.user_id = user.id, !.name = user.name])
             /\ UNCHANGED out

\* main(), choice "4": scan <CARD_UID>.
ConsoleScan(card_in) ==
    /\ pc["console"] = "idle"
    /\ LET card_uid == Strip(card_in)
       IN  IF card_uid = <<>>
           THEN /\ out' = Feedback("console", "unknown_command", "none")
                /\ UNCHANGED <<pc, loc>>
           ELSE IF ~validate_card_uid(card_uid)
           THEN /\ out' = Feedback("console", "invalid_scan", "none")
                /\ UNCHANGED <<pc, loc>>
           ELSE ScanLookup("console", card_uid)
    /\ UNCHANGED <<users, clock_events, clock, conn, gc, widgets, web>>

\* ClockApp.process_card: an empty entry returns at once.
GuiScan(card_in) ==
    /\ pc["gui"] = "idle"
    /\ Strip(card_in) # <<>>
    /\ ScanLookup("gui", Strip(card_in))
    /\ widgets' = IF get_user_by_card(users, Strip(card_in)) = NoUser
                  THEN Watch(show_status(widgets, FALSE,
                                         Message("Unknown Card", Strip(card_in), "none")))
                  ELSE widgets
    /\ UNCHANGED <<users, clock_events, clock, conn, gc, web>>

\* last_event = get_last_event(user_id)
GetLastEvent(p) ==
    /\ pc[p] = "get_last"
    /\ \E last_event \in get_last_event(clock_events, loc[p].user_id) :
          Goto(p, "record", [loc[p] EXCEPT !.last_event = last_event])
    /\ UNCHANGED <<users, clock_events, clock, out, conn, gc, widgets, web>>

\* The toggle, record_clock_event and the feedback.
RecordEvent(p) ==
    /\ pc[p] = "record"
    /\ LET event_type == Toggle(loc[p].last_event)
       IN  \E o \in record_clock_event(clock_events, loc[p].user_id, event_type, clock, Locked) :
             /\ \A e \in o.events : e.id <= MaxEventId
             /\ clock_events' = o.events
             /\ out' = IF o.ret THEN Feedback(p, "clocked", event_type)
                       ELSE Feedback(p, "record_failed", "none")
             /\ \E c \in ExitConn(p, o.err) : c[p].open <= MaxConns /\ conn' = c
             /\ widgets' =
                   IF p # "gui" THEN widgets
                   ELSE IF o.ret
                   THEN Watch(InsertActivity(
                                  show_status(widgets, TRUE,
                                              Message("clocked", loc[p].name, event_type)),
                                  ActivityEntry(clock, loc[p].name, event_type)))
                   ELSE Watch(show_status(widgets, FALSE,
                                          Message("Error recording event", <<>>, "none")))
    /\ Goto(p, "idle", NoLoc)
    /\ UNCHANGED <<users, clock, gc, web>>

\* A call of record_clock_event(user_id, event_type) that is not a scan: the
\* caller names the kind. The function is the one of demo.py.
RecordClockEvent(user_id, event_type) ==
    /\ pc["console"] = "idle"
    /\ \E o \in record_clock_event(clock_events, user_id, event_type, clock, Locked) :
          /\ \A e \in o.events : e.id <= MaxEventId
          /\ clock_events' = o.events
          /\ out' = IF o.ret THEN Feedback("console", "recorded", event_type)
                    ELSE Feedback("console", "record_failed", "none")
          /\ \E c \in ExitConn("console", o.err) : c["console"].open <= MaxConns /\ conn' = c
    /\ UNCHANGED <<users, clock, pc, loc, gc, widgets, web>>

\* main(), choice "3": get_all_events() with its default limit.
ViewRecentEvents ==
    /\ pc["console"] = "idle"
    /\ \E events \in get_all_events(users, clock_events, DefaultAllLimit) :
          out' = Feedback("console", "events", events)
    /\ UNCHANGED <<users, clock_events, clock, pc, loc, conn, gc, widgets, web>>

\* A call of get_user_events(user_id, limit).
GetUserEvents(user_id, limit) ==
    /\ pc["console"] = "idle"
    /\ \E events \in get_user_events(clock_events, user_id, limit) :
          out' = Feedback("console", "user_events", [limit |-> limit, events |-> events])
    /\ UNCHANGED <<users, clock_events, clock, pc, loc, conn, gc, widgets, web>>

\* The GUI is started: ClockApp.__init__ and load_recent_activity, the list
\* box filled from the query.
LoadRecentActivity ==
    /\ pc["gui"] = "idle"
    /\ \E events \in load_recent_activity(users, clock_events) :
          /\ out' = Feedback("gui", "activity", events)
          /\ widgets' = Watch(ClockApp(LoadedEntries(events)))
    /\ UNCHANGED <<users, clock_events, clock, pc, loc, conn, gc, web>>

\* A second passes on the clock of Tk: every pending timer is a second
\* nearer, and the status display a second older.
Elapse ==
    /\ widgets.watched
    /\ \E t \in widgets.timers : t.left > 0
    /\ widgets' = [widgets EXCEPT
                      !.timers = {[t EXCEPT !.left = IF @ > 0 THEN @ - 1 ELSE 0] : t \in @},
                      !.shown_for = IF @ < ResetDelay THEN @ + 1 ELSE @]
    /\ UNCHANGED <<users, clock_events, clock, pc, loc, out, conn, gc, web>>

\* The main loop, with no handler running, calls reset_status for a timer
\* that is due.
ResetStatus ==
    /\ widgets.watched
    /\ pc["gui"] = "idle"
    /\ \E t \in widgets.timers :
          /\ t.left = 0
          /\ widgets' = reset_status([widgets EXCEPT !.timers = @ \ {t}])
    /\ UNCHANGED <<users, clock_events, clock, pc, loc, out, conn, gc, web>>

\* get_user_by_card raises inside a scan: neither process_scan nor
\* process_card catches it. The console program ends with the traceback, and
\* its connections with it; the GUI reports it from the Tk callback and goes
\* on, the connection of the call still open.
ScanLookupRaises(p) ==
    /\ pc[p] = "idle"
    /\ out' = Feedback(p, "exception", "get_user_by_card")
    /\ IF p = "console"
       THEN /\ Goto(p, "crashed", NoLoc)
            /\ conn' = [conn EXCEPT ![p] = NoConn]
       ELSE /\ UNCHANGED <<pc, loc>>
            /\ \E c \in ExitConn(p, "read") : c[p].open <= MaxConns /\ conn' = c
    /\ UNCHANGED <<users, clock_events, clock, gc, widgets, web>>

\* get_last_event raises inside a scan.
GetLastEventRaises(p) ==
    /\ pc[p] = "get_last"
    /\ out' = Feedback(p, "exception", "get_last_event")
    /\ IF p = "console"
       THEN /\ Goto(p, "crashed", NoLoc)
            /\ conn' = [conn EXCEPT ![p] = NoConn]
       ELSE /\ Goto(p, "idle", NoLoc)
            /\ \E c \in ExitConn(p, "read") : c[p].open <= MaxConns /\ conn' = c
    /\ UNCHANGED <<users, clock_events, clock, gc, widgets, web>>

\* ------------------------------------------------------- the admin panel
\* render_dashboard: the two counters and the recent activity of today.
RenderDashboard ==
    /\ pc["admin"] = "idle"
    /\ LET today == <<DateOf(clock)>>
       IN  \E events \in get_clock_events(users, clock_events, 0, today, today) :
             out' = Feedback("admin", "dashboard",
                             [total_users |-> Cardinality(get_users(users)),
                              events_today |-> Len(events),
                              recent |-> Take(events, DashboardRecent)])
    /\ UNCHANGED <<users, clock_events, clock, pc, loc, conn, gc, widgets, web>>

\* get_users or get_clock_events raises inside render_dashboard: the page
\* handler fails with the exception.
RenderDashboardRaises ==
    /\ pc["admin"] = "idle"
    /\ out' = Feedback("admin", "exception", "render_dashboard")
    /\ \E c \in ExitConn("admin", "read") : c["admin"].open <= MaxConns /\ conn' = c
    /\ UNCHANGED <<users, clock_events, clock, pc, loc, gc, widgets, web>>

\* render_reports_tab.refresh_events_table(user_id, start, end)
RefreshEventsTable(user_id, start_date, end_date) ==
    /\ pc["admin"] = "idle"
    /\ \E events \in get_clock_events(users, clock_events, user_id, start_date, end_date) :
          out' = Feedback("admin", "report", events)
    /\ UNCHANGED <<users, clock_events, clock, pc, loc, conn, gc, widgets, web>>

\* render_users_tab.handle_add_user
HandleAddUser(card_in, name_in) ==
    /\ pc["admin"] = "idle"
    /\ IF login_required(web, "admin") # "run"
       THEN /\ out' = Feedback("admin", login_required(web, "admin"), "none")
            /\ UNCHANGED <<users, conn>>
       ELSE IF card_in = <<>> \/ name_in = <<>>
       THEN /\ out' = Feedback("admin", "fill_fields", "none")
            /\ UNCHANGED <<users, conn>>
       ELSE \E o \in webui_add_user(users, card_in, name_in, Locked) :
            /\ \A u \in o.users : u.id <= MaxUserId
            /\ users' = o.users
            /\ out' = Feedback("admin", IF o.ret THEN "added" ELSE "add_failed", "none")
            /\ \E c \in ExitConn("admin", o.err) : c["admin"].open <= MaxConns /\ conn' = c
    /\ UNCHANGED <<clock_events, clock, pc, loc, gc, widgets, web>>

\* handle_edit_user.save_changes on the row `user`, with the two fields of the
\* dialog as edited. The detail of the feedback is the exception update_user
\* printed.
save_changes(user, card_in, name_in) ==
    \E o \in update_user(users, user.id, card_in, name_in, Locked) :
       /\ users' = o.users
       /\ out' = Feedback("admin", IF o.ret THEN "updated" ELSE "update_failed", o.err)
       /\ \E c \in ExitConn("admin", o.err) : c["admin"].open <= MaxConns /\ conn' = c

\* render_users_tab.handle_edit_user and save_changes in one go: the row of
\* the users table that was clicked, and the dialog saved as edited.
HandleEditUser(user, card_in, name_in) ==
    /\ pc["admin"] = "idle"
    /\ user \in users
    /\ IF login_required(web, "admin") # "run"
       THEN /\ out' = Feedback("admin", login_required(web, "admin"), "none")
            /\ UNCHANGED <<users, conn>>
       ELSE save_changes(user, card_in, name_in)
    /\ UNCHANGED <<clock_events, clock, pc, loc, gc, widgets, web>>

\* handle_edit_user and handle_delete_user up to dialog.open(): the wrapper,
\* and the dialog on the row that was clicked.
HandleOpenDialog(kind, user) ==
    /\ pc["admin"] = "idle"
    /\ user \in users
    /\ IF login_required(web, "admin") # "run"
       THEN /\ out' = Feedback("admin", login_required(web, "admin"), "none")
            /\ UNCHANGED web
       ELSE /\ web' = [web EXCEPT !.dialog = [kind |-> kind, user |-> user]]
            /\ UNCHANGED out
    /\ UNCHANGED <<users, clock_events, clock, pc, loc, conn, gc, widgets>>

\* The Save button of the edit dialog: save_changes, which closes the dialog
\* when update_user returned True.
SaveChanges(card_in, name_in) ==
    /\ pc["admin"] = "idle"
    /\ web.dialog.kind = "edit"
    /\ save_changes(web.dialog.user, card_in, name_in)
    /\ web' = [web EXCEPT !.dialog = IF out'.msg = "updated" THEN NoDialog ELSE @]
    /\ UNCHANGED <<clock_events, clock, pc, loc, gc, widgets>>

\* confirm_delete calls delete_user, which connects.
confirm_delete(user) ==
    /\ conn["admin"].open < MaxConns
    /\ conn' = Connect("admin")
    /\ Goto("admin", "delete_events",
            [NoLoc EXCEPT !.user_id = user.id, !.card_uid = user.card_uid, !.name = user.name])

\* render_users_tab.handle_delete_user and confirm_delete in one go.
DeleteBegin(user) ==
    /\ pc["admin"] = "idle"
    /\ user \in users
    /\ IF login_required(web, "admin") # "run"
       THEN /\ out' = Feedback("admin", login_required(web, "admin"), "none")
            /\ UNCHANGED <<pc, loc, conn>>
       ELSE /\ confirm_delete(user)
            /\ UNCHANGED out
    /\ UNCHANGED <<users, clock_events, clock, gc, widgets, web>>

\* The Delete button of the delete dialog.
ConfirmDelete ==
    /\ pc["admin"] = "idle"
    /\ web.dialog.kind = "delete"
    /\ confirm_delete(web.dialog.user)
    /\ UNCHANGED <<users, clock_events, clock, out, gc, widgets, web>>

\* login_page.try_login
Login(username, password) ==
    /\ pc["admin"] = "idle"
    /\ LET user == get_admin_user(web.admin_users, username)
       IN  IF user # NoAdmin /\ verify_password(password, user.password_hash)
           THEN /\ web.issued < MaxSessions
                /\ web' = [web EXCEPT
                              !.sessions = @ \cup {[id |-> web.issued + 1, username |-> username,
                                                    role |-> user.role]},
                              !.session_id = web.issued + 1,
                              !.issued = @ + 1]
                /\ out' = Feedback("admin", "welcome", username)
           ELSE /\ out' = Feedback("admin", "invalid_login", "none")
                /\ UNCHANGED web
    /\ UNCHANGED <<users, clock_events, clock, pc, loc, conn, gc, widgets>>

\* index_page.logout. The page that holds the Logout button is sent to
\* /login; a dialog open on another page of the browser stays open.
Logout ==
    /\ pc["admin"] = "idle"
    /\ \E dialog \in {web.dialog, NoDialog} :
          web' = [web EXCEPT !.sessions = {x \in @ : x.id # web.session_id},
                             !.session_id = 0,
                             !.dialog = dialog]
    /\ out' = Feedback("admin", "login", "none")
    /\ UNCHANGED <<users, clock_events, clock, pc, loc, conn, gc, widgets>>

\* index_page.load_dashboard, wrapped by login_required() without a role.
LoadDashboard ==
    /\ pc["admin"] = "idle"
    /\ out' = IF login_required(web, "") = "run"
              THEN Feedback("admin", "index",
                            (CHOOSE x \in web.sessions : x.id = web.session_id).role)
              ELSE Feedback("admin", login_required(web, ""), "none")
    /\ UNCHANGED <<users, clock_events, clock, pc, loc, conn, gc, widgets, web>>

\* render_admin_tab.handle_add_admin and add_admin_user: username is UNIQUE.
HandleAddAdmin(username, password, role) ==
    /\ pc["admin"] = "idle"
    /\ IF login_required(web, "admin") # "run"
       THEN /\ out' = Feedback("admin", login_required(web, "admin"), "none")
            /\ UNCHANGED web
       ELSE IF username = "" \/ password = ""
       THEN /\ out' = Feedback("admin", "fill_fields", "none")
            /\ UNCHANGED web
       ELSE IF get_admin_user(web.admin_users, username) # NoAdmin
       THEN /\ out' = Feedback("admin", "add_admin_failed", "none")
            /\ UNCHANGED web
       ELSE /\ web' = [web EXCEPT !.admin_users = @ \cup
                           {[username |-> username, password_hash |-> hash_password(password),
                             role |-> role]}]
            /\ out' = Feedback("admin", "admin_added", "none")
    /\ UNCHANGED <<users, clock_events, clock, pc, loc, conn, gc, widgets>>

\* An exception in delete_user: it returns False without conn.close(). The
\* transaction is never committed: it is rolled back when the connection is
\* finalised, and holds the write lock until then.
DeleteFail(stage) ==
    /\ pc["admin"] = stage
    /\ stage \in {"delete_events", "delete_user", "commit"}
    /\ Goto("admin", "idle", NoLoc)
    /\ out' = Feedback("admin", "delete_failed", stage)
    /\ conn' = IF gc = "eager" THEN Close("admin") ELSE conn
    /\ UNCHANGED <<users, clock_events, clock, gc, widgets, web>>

\* DELETE FROM clock_events WHERE user_id = ?
DeleteEvents ==
    /\ pc["admin"] = "delete_events"
    /\ ~Locked
    /\ conn' = [conn EXCEPT !["admin"].txn = TRUE]
    /\ clock_events' = CommittedAfterExecute(clock_events,
                                             DeletedEventRows(clock_events, loc["admin"].user_id))
    /\ Goto("admin", "delete_user", loc["admin"])
    /\ UNCHANGED <<users, clock, out, gc, widgets, web>>

\* DELETE FROM users WHERE id = ?
DeleteUserRow ==
    /\ pc["admin"] = "delete_user"
    /\ users' = CommittedAfterExecute(users, DeletedUserRows(users, loc["admin"].user_id))
    /\ Goto("admin", "commit", loc["admin"])
    /\ UNCHANGED <<clock_events, clock, out, conn, gc, widgets, web>>

\* conn.commit() and conn.close(): the write lock was held since the first
\* DELETE, so the rows the two statements matched are the rows that match now.
DeleteCommit ==
    /\ pc["admin"] = "commit"
    /\ clock_events' = CommittedAfterCommit(clock_events,
                                            DeletedEventRows(clock_events, loc["admin"].user_id))
    /\ users' = CommittedAfterCommit(users, DeletedUserRows(users, loc["admin"].user_id))
    /\ conn' = Close("admin")
    /\ Goto("admin", "refresh", loc["admin"])
    /\ UNCHANGED <<clock, out, gc, widgets, web>>

\* delete_user returned True: the notification and refresh_users_table.
DeleteDone ==
    /\ pc["admin"] = "refresh"
    /\ Goto("admin", "idle", NoLoc)
    /\ out' = Feedback("admin", "deleted", "none")
    /\ web' = [web EXCEPT !.dialog = IF @.kind = "delete" THEN NoDialog ELSE @]
    /\ UNCHANGED <<users, clock_events, clock, conn, gc, widgets>>

\* The interpreter finalises the connections of p that nothing refers to any
\* more: they are closed and their transactions rolled back.
Collect(p) ==
    /\ gc = "lazy"
    /\ conn[p].open > InUse(p)
    /\ conn' = [conn EXCEPT ![p] = [open |-> InUse(p),
                                     txn |-> p = "admin" /\ pc[p] \in {"delete_user", "commit"}]]
    /\ UNCHANGED <<users, clock_events, clock, pc, loc, out, gc, widgets, web>>

\* ------------------------------------------------------- specifications
\* The cards of the scan scenarios: one that gets enrolled, one that never is.
EnrolledCard == <<"A", "B">>
StrangerCard == <<"C", "D">>

DeleteUser ==
    \/ \E user \in users : DeleteBegin(user)
    \/ \E stage \in {"delete_events", "delete_user", "commit"} : DeleteFail(stage)
    \/ DeleteEvents
    \/ DeleteUserRow
    \/ DeleteCommit
    \/ DeleteDone

\* The three front-ends at work on one card: console enrolment, scans at the
\* GUI and at the console, deletion in the admin panel.
Next ==
    \/ Tick
    \/ ConsoleAddUser(EnrolledCard, <<"X">>)
    \/ \E card_in \in {EnrolledCard, StrangerCard} : ConsoleScan(card_in)
    \/ \E card_in \in {EnrolledCard, StrangerCard} : GuiScan(card_in)
    \/ \E p \in Scanners : GetLastEvent(p)
    \/ \E p \in Scanners : RecordEvent(p)
    \/ DeleteUser

Spec == Init /\ [][Next]_vars

\* Enrolment and administration with every input, no scans.
NextEnroll ==
    \/ \E card_in \in CardInputs, name_in \in NameInputs : ConsoleAddUser(card_in, name_in)
    \/ \E card_in \in CardInputs, name_in \in NameInputs : HandleAddUser(card_in, name_in)
    \/ \E user \in users, card_in \in CardInputs, name_in \in NameInputs :
          HandleEditUser(user, card_in, name_in)
    \/ DeleteUser

SpecEnroll == Init /\ [][NextEnroll]_vars

\* The console alone: every call is sequential.
NextConsole ==
    \/ Tick
    \/ \E card_in \in CardInputs, name_in \in NameInputs : ConsoleAddUser(card_in, name_in)
    \/ \E card_in \in CardInputs : ConsoleScan(card_in)
    \/ GetLastEvent("console")
    \/ RecordEvent("console")

SpecConsole == Init /\ [][NextConsole]_vars

\* The kinds a caller of record_clock_event can name: event_type is a str.
EventTypeInputs == {"in", "out", "break"}

\* The console with calls of record_clock_event that name the kind.
NextManual ==
    \/ Tick
    \/ ConsoleAddUser(EnrolledCard, <<"X">>)
    \/ ConsoleScan(EnrolledCard)
    \/ GetLastEvent("console")
    \/ RecordEvent("console")
    \/ \E user \in users, event_type \in EventTypeInputs : RecordClockEvent(user.id, event_type)

SpecManual == Init /\ [][NextManual]_vars

\* Two cards in the hands of the console and of the admin panel: enrolment,
\* scans, calls of record_clock_event, edits of the card and deletions.
LedgerCards == {EnrolledCard, StrangerCard}
LedgerNames == {<<"X">>, <<"Y">>}

NextLedger ==
    \/ \E card_in \in LedgerCards : ConsoleAddUser(card_in, <<"X">>)
    \/ \E card_in \in LedgerCards : ConsoleScan(card_in)
    \/ GetLastEvent("console")
    \/ RecordEvent("console")
    \/ \E user \in users : RecordClockEvent(user.id, "out")
    \/ \E user \in users, card_in \in LedgerCards : HandleEditUser(user, card_in, <<"X">>)
    \/ DeleteUser

SpecLedger == Init /\ [][NextLedger]_vars

\* The same without deletions, the edits changing the name too.
NextEdit ==
    \/ \E card_in \in LedgerCards : ConsoleAddUser(card_in, <<"X">>)
    \/ \E card_in \in LedgerCards : ConsoleScan(card_in)
    \/ GetLastEvent("console")
    \/ RecordEvent("console")
    \/ \E user \in users : RecordClockEvent(user.id, "out")
    \/ \E user \in users, card_in \in LedgerCards, name_in \in LedgerNames :
          HandleEditUser(user, card_in, name_in)

SpecEdit == Init /\ [][NextEdit]_vars

\* Storage failures of the reads too, under either interpreter.
NextFaults ==
    \/ ConsoleAddUser(EnrolledCard, <<"X">>)
    \/ ConsoleScan(EnrolledCard)
    \/ GuiScan(EnrolledCard)
    \/ \E p \in Scanners : GetLastEvent(p)
    \/ \E p \in Scanners : RecordEvent(p)
    \/ \E p \in Scanners : ScanLookupRaises(p)
    \/ \E p \in Scanners : GetLastEventRaises(p)
    \/ RenderDashboard
    \/ RenderDashboardRaises
    \/ DeleteUser
    \/ \E p \in Procs : Collect(p)

SpecFaults == InitAnyInterpreter /\ [][NextFaults]_vars

\* The queries on stores that scans have filled: one identity scanned n times,
\* a second apart (step 1) or all within one second (step 0), read on the day
\* of the scans or on the day after.
SeedUsers == {[id |-> 1, card_uid |-> EnrolledCard, name |-> <<"X">>]}

SeedEvents(n, step) ==
    {[id |-> i, user_id |-> 1, event_type |-> IF i % 2 = 1 THEN "in" ELSE "out",
      timestamp |-> i * step] : i \in 1..n}

SeedSizes == {0, 1, 2, GuiLimit + 1, DefaultUserLimit + 1, DefaultAllLimit + 1, AdminLimit + 1}

Seeds == {<<n, 1>> : n \in SeedSizes} \cup {<<2, 0>>}

LimitInputs == {0, 1, DefaultUserLimit}

InitLists ==
    /\ \E seed \in Seeds :
          /\ clock_events = SeedEvents(seed[1], seed[2])
          /\ clock \in {seed[1] * seed[2], SecondsPerDay + seed[1] * seed[2]}
    /\ users = SeedUsers
    /\ pc = [p \in Procs |-> "idle"]
    /\ loc = [p \in Procs |-> NoLoc]
    /\ out = NoFeedback
    /\ conn = [p \in Procs |-> NoConn]
    /\ gc = "eager"
    /\ widgets = Unwatched
    /\ web = SignedIn

NextLists ==
    \/ ViewRecentEvents
    \/ \E user \in users, limit \in LimitInputs : GetUserEvents(user.id, limit)
    \/ LoadRecentActivity
    \/ RenderDashboard
    \/ \E user_id \in {0, 1}, day \in {NoDate, <<0>>} : RefreshEventsTable(user_id, day, day)

SpecLists == InitLists /\ [][NextLists]_vars

\* The GUI started on a store in which one identity was scanned n times, a
\* second apart: scans of its card, while the admin panel deletes and the
\* console enrols.
GuiSeedSizes == {0, 2}

InitGui ==
    /\ \E n \in GuiSeedSizes :
          /\ users = IF n = 0 THEN {} ELSE SeedUsers
          /\ clock_events = SeedEvents(n, 1)
          /\ clock = n
          /\ widgets \in {ClockApp(LoadedEntries(events)) :
                             events \in load_recent_activity(users, clock_events)}
    /\ pc = [p \in Procs |-> "idle"]
    /\ loc = [p \in Procs |-> NoLoc]
    /\ out = NoFeedback
    /\ conn = [p \in Procs |-> NoConn]
    /\ gc = "eager"
    /\ web = SignedIn

NextGui ==
    \/ ConsoleAddUser(EnrolledCard, <<"X">>)
    \/ GuiScan(EnrolledCard)
    \/ GetLastEvent("gui")
    \/ RecordEvent("gui")
    \/ DeleteUser

SpecGui == InitGui /\ [][NextGui]_vars

\* The status display alone, the main loop of Tk running: time passes, a due
\* timer is served, and a handler that was entered runs to its end.
NextStatus ==
    \/ ConsoleAddUser(EnrolledCard, <<"X">>)
    \/ \E card_in \in {EnrolledCard, StrangerCard} : GuiScan(card_in)
    \/ GetLastEvent("gui")
    \/ RecordEvent("gui")
    \/ Elapse
    \/ ResetStatus

SpecStatus ==
    /\ InitGui
    /\ [][NextStatus]_vars
    /\ WF_vars(Elapse)
    /\ WF_vars(ResetStatus)
    /\ WF_vars(GetLastEvent("gui"))
    /\ WF_vars(RecordEvent("gui"))

\* The admin panel in one browser, from before any login: logins with right
\* and wrong passwords, a viewer account, logout, and the handlers of the
\* users tab with their dialogs.
Usernames == {"admin", "guest"}
Passwords == {"admin123", "guest1"}

InitSession ==
    /\ InitLedger
    /\ gc = "eager"
    /\ web = SignedOut

NextSession ==
    \/ \E username \in Usernames, password \in Passwords : Login(username, password)
    \/ Logout
    \/ LoadDashboard
    \/ HandleAddAdmin("guest", "guest1", "viewer")
    \/ HandleAddUser(EnrolledCard, <<"X">>)
    \/ \E kind \in {"edit", "delete"}, user \in users : HandleOpenDialog(kind, user)
    \/ SaveChanges(StrangerCard, <<"Y">>)
    \/ ConfirmDelete
    \/ \E stage \in {"delete_events", "delete_user", "commit"} : DeleteFail(stage)
    \/ DeleteEvents
    \/ DeleteUserRow
    \/ DeleteCommit
    \/ DeleteDone

SpecSession == InitSession /\ [][NextSession]_vars

\* ================================================================ claims
CardHeld(us, card_uid) == \E u \in us : u.card_uid = card_uid

\* The n of "the n-th event recorded for this identity".
Rank(evs, e) == Cardinality({f \in evs : f.user_id = e.user_id /\ f.id <= e.id})

\* The kind of the event recorded last for the identity, "none" without one.
MostRecentKind(evs, user_id) ==
    IF \A e \in evs : e.user_id # user_id THEN "none"
    ELSE (CHOOSE e \in evs : /\ e.user_id = user_id
                             /\ \A f \in evs : f.user_id = user_id => f.id <= e.id).event_type

\* C1: under sequential scans of an identity that starts with no events, the
\* n-th recorded event is `in` when n is odd and `out` when n is even, whatever
\* the timing of the scans. (The statement of the claim; the console alone is
\* sequential and never deletes.)
C1_StrictAlternation ==
    \A e \in clock_events :
        e.event_type = (IF Rank(clock_events, e) % 2 = 1 THEN "in" ELSE "out")

\* C2: record_event has no mutual exclusion on its read-then-write: a caller
\* that reaches its insert appends the kind toggled from its own earlier read,
\* whatever other callers appended in between, and the insert can succeed
\* whatever the position of the other caller; so two callers that read the
\* same last kind both append the same kind.
C2_NoMutualExclusion ==
    /\ [](\A p \in Scanners :
            (pc[p] = "record" /\ ~Locked /\ NewRowId(clock_events) <= MaxEventId)
                => ENABLED (RecordEvent(p) /\ out'.msg = "clocked"))
    /\ [][\A p \in Scanners :
            (pc[p] = "record" /\ pc'[p] = "idle" /\ out'.msg = "clocked")
                => clock_events' = clock_events \cup
                       {[id |-> NewRowId(clock_events), user_id |-> loc[p].user_id,
                         event_type |-> Toggle(loc[p].last_event), timestamp |-> clock]}]_vars

\* C2 witness: both scanners are done, an enrolled identity has two consecutive
\* events of the same kind, and no two of its events share a timestamp (so no
\* read was ambiguous: the doubled kind comes from two reads of the same last
\* event).
C2_DoubledKind ==
    /\ \A p \in Scanners : pc[p] = "idle"
    /\ out.msg = "clocked"
    /\ \E u \in users : \E e1, e2 \in EventsOf(clock_events, u.id) :
          /\ e1.id < e2.id
          /\ e1.event_type = e2.event_type
          /\ \A f \in EventsOf(clock_events, u.id) : ~(e1.id < f.id /\ f.id < e2.id)
          /\ \A f, g \in EventsOf(clock_events, u.id) : f # g => f.timestamp # g.timestamp

\* C3: in every reachable state no two stored identities have the same card
\* token.
C3_UniqueCardToken ==
    \A u, v \in users : u.card_uid = v.card_uid => u = v

\* C3 witness: two identities are stored and an update has just gone through.
C3_TwoIdentitiesUpdated ==
    /\ Cardinality(users) = 2
    /\ out = Feedback("admin", "updated", "none")

\* C4: an enrol (console or admin panel) whose card token is held by an
\* identity returns False and leaves identities and events unchanged; an enrol
\* of a free token is never refused as a duplicate, and when it reports success
\* the identity is stored.
C4_DuplicateEnroll ==
    [][/\ \A c \in CardInputs, n \in NameInputs :
            (ConsoleAddUser(c, n) /\ validate_card_uid(Strip(c)) /\ Strip(n) # <<>>) =>
                IF CardHeld(users, Strip(c))
                THEN /\ out'.msg \in {"duplicate", "add_failed"}
                     /\ UNCHANGED <<users, clock_events>>
                ELSE /\ out'.msg \in {"added", "add_failed"}
                     /\ out'.msg = "added" =>
                            /\ CardHeld(users', Strip(c))
                            /\ Cardinality(users') = Cardinality(users) + 1
       /\ \A c \in CardInputs, n \in NameInputs :
            (HandleAddUser(c, n) /\ c # <<>> /\ n # <<>>) =>
                IF CardHeld(users, c)
                THEN /\ out'.msg = "add_failed"
                     /\ UNCHANGED <<users, clock_events>>
                ELSE out'.msg = "added" =>
                        /\ CardHeld(users', c)
                        /\ Cardinality(users') = Cardinality(users) + 1]_vars

\* C4 witness: the console has just refused a token as a duplicate, and the
\* identity enrolled first is stored.
C4_SecondEnrollRefused ==
    /\ out = Feedback("console", "duplicate", "none")
    /\ users # {}

\* C5: enrol fails and creates no identity whenever the card token length is
\* outside [2,64] or the name is empty, on the console path and on the admin
\* panel path. (The statement of the claim.)
C5_EnrollValidation ==
    [][/\ \A c \in CardInputs, n \in NameInputs :
            (ConsoleAddUser(c, n) /\ (Len(Strip(c)) < 2 \/ Len(Strip(c)) > 64 \/ Strip(n) = <<>>))
                => (users' = users /\ out'.msg \in {"invalid_uid", "empty_name"})
       /\ \A c \in CardInputs, n \in NameInputs :
            (HandleAddUser(c, n) /\ (Len(c) < 2 \/ Len(c) > 64 \/ n = <<>>))
                => (users' = users /\ out'.msg # "added")]_vars

DeleteStages == {"delete_events", "delete_user", "commit"}

\* C6: delete_identity is atomic. Every step of delete_user either leaves the
\* committed identities and events as they are, or (the commit, the only step
\* after which success is reported) removes the identity's row and all its
\* events at once; a delete that fails, at whatever point, has changed nothing.
C6_DeleteAtomic ==
    [][(pc["admin"] \in DeleteStages /\ pc'["admin"] # pc["admin"]) =>
          LET X == loc["admin"].user_id
          IN  \/ /\ pc'["admin"] # "refresh"
                 /\ UNCHANGED <<users, clock_events>>
              \/ /\ pc'["admin"] = "refresh"
                 /\ users' = {u \in users : u.id # X}
                 /\ clock_events' = {e \in clock_events : e.user_id # X}]_vars

\* C6 witness: delete_user has failed between its two DELETE statements, and
\* the identity and its events are all still stored.
C6_FailedBetweenStatements ==
    /\ out = Feedback("admin", "delete_failed", "delete_user")
    /\ \E u \in users : \E e \in clock_events : e.user_id = u.id

\* C7: when delete_identity(X) succeeds, no event owned by X remains in the
\* store and list_events(identity_id=X) returns the empty sequence.
C7_DeleteRemovesEvents ==
    [][(pc["admin"] = "commit" /\ pc'["admin"] = "refresh") =>
          LET X == loc["admin"].user_id
          IN  /\ \A e \in clock_events' : e.user_id # X
              /\ get_clock_events(users', clock_events', X, NoDate, NoDate) = {<<>>}]_vars

\* C7 witness: the last feedback rendered is a successful scan, delete_user has
\* committed since, and no event of the deleted identity is left.
C7_EventsGoneAfterDelete ==
    /\ pc["admin"] = "refresh"
    /\ out.msg = "clocked"
    /\ \A e \in clock_events : e.user_id # loc["admin"].user_id

\* C8: when delete_identity of the holder of card token T succeeds, no identity
\* holds T any more, and an enrol of a valid token that no identity holds is
\* never refused as a duplicate: it can succeed, and fails only on a failure of
\* the store.
C8_ReEnrollAfterDelete ==
    /\ [](\A c \in CardInputs :
            (/\ pc["admin"] = "refresh"
             /\ pc["console"] = "idle"
             /\ loc["admin"].card_uid = Strip(c)
             /\ validate_card_uid(Strip(c))
             /\ ~CardHeld(users, Strip(c))
             /\ ~Locked
             /\ NewRowId(users) <= MaxUserId)
                => ENABLED (ConsoleAddUser(c, <<"X">>) /\ out'.msg = "added"))
    /\ [][/\ (pc["admin"] = "commit" /\ pc'["admin"] = "refresh")
                => ~CardHeld(users', loc["admin"].card_uid)
          /\ \A c \in CardInputs, n \in NameInputs :
                (/\ ConsoleAddUser(c, n)
                 /\ validate_card_uid(Strip(c)) /\ Strip(n) # <<>>
                 /\ ~CardHeld(users, Strip(c)))
                    => out'.msg \in {"added", "add_failed"}]_vars

\* C8 witness: delete_user has committed the deletion of the holder of a token,
\* the console has enrolled since, and the token is held again.
C8_TokenEnrolledAgain ==
    /\ pc["admin"] = "refresh"
    /\ out = Feedback("console", "added", "none")
    /\ CardHeld(users, loc["admin"].card_uid)

\* C9: last_event_kind returns none when the identity has no events, and
\* otherwise the kind of the most recently recorded event of the identity.
\* (The statement of the claim.)
C9_LastEventKind ==
    [][\A p \in Scanners :
          (pc[p] = "get_last" /\ pc'[p] = "record")
              => loc'[p].last_event = MostRecentKind(clock_events, loc[p].user_id)]_vars

\* C10: find_by_card on a card token that no identity holds returns none, and
\* the scan of such a card appends no event, changes no identity and leaves
\* the scanner where it was: only the failure feedback is produced.
C10_UnknownCardScan ==
    [][\A p \in Scanners, c \in {EnrolledCard, StrangerCard} :
          (/\ IF p = "gui" THEN GuiScan(c) ELSE ConsoleScan(c)
           /\ ~CardHeld(users, Strip(c)))
              => /\ get_user_by_card(users, Strip(c)) = NoUser
                 /\ UNCHANGED <<users, clock_events, pc, loc>>
                 /\ out' = Feedback(p, "unknown_card", "none")]_vars

\* C10 witness: a card that no identity holds has just been scanned while an
\* identity and an event of it are stored.
C10_StrangerScanned ==
    /\ out.msg = "unknown_card"
    /\ \E u \in users : \E e \in clock_events : e.user_id = u.id

\* C11: an update of an identity to a card token that a different identity
\* holds returns failure: the panel renders the failure and goes on, and every
\* identity, the token and the name of the target included, and every event
\* is as before.
C11_UpdateCollision ==
    [][\A user \in users, c \in LedgerCards, n \in LedgerNames :
          (/\ HandleEditUser(user, c, n)
           /\ \E v \in users : v.id # user.id /\ v.card_uid = c)
              => /\ out'.by = "admin" /\ out'.msg = "update_failed"
                 /\ UNCHANGED <<users, clock_events, pc, loc>>]_vars

\* C11 witness: the store has refused an update for the token of another
\* identity, while two identities and an event are stored and the target is
\* still named as it was enrolled.
C11_CollisionRefused ==
    /\ out.msg = "update_failed" /\ out.detail = "integrity"
    /\ Cardinality(users) = 2
    /\ \A u \in users : u.name = <<"X">>
    /\ clock_events # {}

\* C12: currently_in() is exactly the set of the stored identities whose
\* latest event is of kind `in`: an identity with events [in, out, in] is in
\* it, one with [in, out] or without events is not. (The statement of the
\* claim.)
C12_CurrentlyIn ==
    \A S \in currently_in(users, clock_events) :
        S = {u \in users : MostRecentKind(clock_events, u.id) = "in"}

\* C14: a call of record_clock_event that names the kind appends exactly one
\* event of that kind, whatever the last event of the identity, and the next
\* scan of the identity records the opposite of the named kind. (The
\* statement of the claim.)
C14_ManualEvent ==
    [][/\ \A user \in users, k \in {"in", "out"} :
            (RecordClockEvent(user.id, k) /\ out'.msg = "recorded")
                => clock_events' = clock_events \cup
                       {[id |-> NewRowId(clock_events), user_id |-> user.id,
                         event_type |-> k, timestamp |-> clock]}
       /\ (/\ out.msg = "recorded" /\ out.detail \in {"in", "out"}
           /\ RecordEvent("console") /\ out'.msg = "clocked")
                => out'.detail = Toggle(out.detail)]_vars

\* C15: in every reachable state every stored event is of kind `in` or `out`,
\* whatever scans and calls of record_clock_event came before. (The statement
\* of the claim.)
C15_EventKinds ==
    \A e \in clock_events : e.event_type \in {"in", "out"}

\* C16: in every reachable state every stored identity has a card token of 2
\* to 64 characters and a name that is not empty, whatever enrolments and
\* updates came before, from the console or from the admin panel. (The
\* statement of the claim.)
C16_StoredIdentityBounds ==
    \A u \in users :
        /\ Len(u.card_uid) >= MinUidLen /\ Len(u.card_uid) <= MaxUidLen
        /\ u.name # <<>>

\* C17: events are append-only but for the cascade of a deletion. The commit
\* of delete_user for identity X removes the events of X and the row of X and
\* nothing else; every other step of every operation (enrolment, update, scan,
\* record_clock_event, a failed deletion) leaves every stored event in place
\* with its owner, kind and timestamp; and no two events ever share an id.
C17_AppendOnly ==
    [][/\ IF pc["admin"] = "commit" /\ pc'["admin"] = "refresh"
          THEN /\ clock_events' = {e \in clock_events : e.user_id # loc["admin"].user_id}
               /\ users' = {u \in users : u.id # loc["admin"].user_id}
          ELSE clock_events \subseteq clock_events'
       /\ \A e, f \in clock_events' : e.id = f.id => e = f]_vars

\* C17 witness: a deletion has just been committed; the first event ever
\* recorded is gone with its owner, and an event recorded after it is still
\* stored with its owner.
C17_OthersKeptAfterDelete ==
    /\ pc["admin"] = "refresh"
    /\ \A e \in clock_events : e.id # 1
    /\ \E u \in users : \E e \in clock_events : e.user_id = u.id /\ e.id > 1

\* C18: every operation of the ledger reports a failure of the store to its
\* caller as a value, the reads (get_user_by_card, get_last_event,
\* get_clock_events, get_users) like the writes: no front-end is ever left
\* with an exception of the store. (The statement of the claim.)
C18_FailuresTyped ==
    /\ out.msg # "exception"
    /\ pc["console"] # "crashed"

\* C19: every operation releases the connection it opened on every exit
\* path: a process holds no connection open but the one of a call of it that
\* is still running. (The statement of the claim.)
C19_ConnectionReleased ==
    \A p \in Procs : conn[p].open = InUse(p)

\* C13: every list of events is newest first, the later of two events recorded
\* one after the other before the earlier, and no longer than its cap: 1000
\* in the admin panel, the caller's limit (20 by default for all events) in
\* the console, 8 in the GUI. (The statement of the claim.)
C13_NewestFirstCapped ==
    /\ out.msg = "report" =>
          /\ Len(out.detail) <= AdminLimit
          /\ \A i, j \in 1..Len(out.detail) :
                i < j => /\ out.detail[i].timestamp >= out.detail[j].timestamp
                         /\ out.detail[i].id > out.detail[j].id
    /\ out.msg = "user_events" =>
          /\ Len(out.detail.events) <= out.detail.limit
          /\ \A i, j \in 1..Len(out.detail.events) :
                i < j => out.detail.events[i][2] >= out.detail.events[j][2]
    /\ out.msg = "events" =>
          /\ Len(out.detail) <= DefaultAllLimit
          /\ \A i, j \in 1..Len(out.detail) : i < j => out.detail[i][3] >= out.detail[j][3]
    /\ out.msg = "activity" =>
          /\ Len(out.detail) <= GuiLimit
          /\ \A i, j \in 1..Len(out.detail) : i < j => out.detail[i][3] >= out.detail[j][3]

\* C20: the counters of the dashboard are the true counts: as many identities
\* as are stored, and as many events of today as are stored, however many.
\* (The statement of the claim.)
C20_AggregateCounts ==
    out.msg = "dashboard" =>
        /\ out.detail.total_users = Cardinality(users)
        /\ out.detail.events_today =
               Cardinality({e \in clock_events : DateOf(e.timestamp) = DateOf(clock)})

\* C21: in every reachable state every stored event is owned by a stored
\* identity, also when the scan of an identity (lookup, last event, insert)
\* interleaves with delete_user of that identity in the admin panel. (The
\* statement of the claim.)
C21_EventsOwned ==
    \A e \in clock_events : \E u \in users : u.id = e.user_id

\* C22: an identity that was just enrolled has no history, also when
\* identities were deleted before: no stored event is owned by its id, so
\* get_last_event answers none for it and its first scan records `in`. (The
\* statement of the claim.)
C22_NewIdentityNoHistory ==
    [][\A u \in users' \ users :
          /\ EventsOf(clock_events', u.id) = {}
          /\ get_last_event(clock_events', u.id) = {"none"}
          /\ \A last_event \in get_last_event(clock_events', u.id) : Toggle(last_event) = "in"]_vars

\* C23: a scan of a known card that reports success has appended exactly one
\* event, of the kind reported and owned by the identity that the lookup found
\* holding the card, and the GUI shows '<name> clocked <kind>' of it; a scan
\* whose record_clock_event fails appends nothing, shows the failure, leaves
\* the activity list of the GUI as it was and ends without a retry.
C23_ScanOutcome ==
    [][\A p \in Scanners :
          (pc[p] = "record" /\ pc'[p] # "record") =>
              IF out'.msg = "clocked"
              THEN /\ \E e \in clock_events' \ clock_events :
                        /\ clock_events' = clock_events \cup {e}
                        /\ e.user_id = loc[p].user_id
                        /\ e.event_type = out'.detail
                   /\ p = "gui" =>
                        /\ widgets'.status = "success"
                        /\ widgets'.message = Message("clocked", loc[p].name, out'.detail)
              ELSE /\ out'.msg = "record_failed"
                   /\ clock_events' = clock_events
                   /\ pc'[p] = "idle"
                   /\ p = "gui" =>
                        /\ widgets'.status = "failure"
                        /\ widgets'.activity_list = widgets.activity_list]_vars

\* C23 witness: the GUI has just shown the failure of a scan, the entry of an
\* earlier successful scan still on its list, and no event of the failed scan
\* is stored.
C23_FailedScanShown ==
    /\ out = Feedback("gui", "record_failed", "none")
    /\ widgets.status = "failure"
    /\ widgets.message.text = "Error recording event"
    /\ pc["gui"] = "idle"
    /\ Len(widgets.activity_list) = 1
    /\ Cardinality(clock_events) = 1

\* C24: the Recent Activity list of the GUI never holds more than 8 entries
\* and is newest first: it starts with the at most 8 rows loaded, a successful
\* scan puts its entry first and keeps the entries before it in their order,
\* all of them up to 7 and, beyond that, all but the last, which is the
\* oldest; no other step changes the list.
C24_ActivityList ==
    /\ [](Len(widgets.activity_list) <= ActivityLimit)
    /\ [][IF pc["gui"] = "record" /\ pc'["gui"] # "record" /\ out'.msg = "clocked"
          THEN /\ Head(widgets'.activity_list) =
                      ActivityEntry(clock, loc["gui"].name, out'.detail)
               /\ Tail(widgets'.activity_list) =
                      Take(widgets.activity_list, ActivityLimit - 1)
          ELSE widgets'.activity_list = widgets.activity_list]_vars

\* C24 witness: the list is full after a successful scan, and the entry of the
\* first event ever recorded, an `in`, is no longer its last: it was dropped.
C24_OldestDropped ==
    /\ out.by = "gui" /\ out.msg = "clocked"
    /\ Len(widgets.activity_list) = ActivityLimit
    /\ widgets.activity_list[ActivityLimit][3] = "out"

\* A call of show_status: a new timer is held in status_timer.
ShowStatusCalled ==
    /\ widgets'.status_timer # 0
    /\ widgets'.status_timer # widgets.status_timer

StatusIdle == widgets.status = "idle" /\ widgets.status_timer = 0 /\ widgets.timers = {}

\* C25: the status display has at most one reset pending at any time; a reset
\* acts only when the display has been shown for 3 seconds since the last
\* show_status, and it clears status_timer; and unless show_status is called
\* again and again for ever, the display is in the end idle ('Please scan your
\* card'), with status_timer cleared and no timer pending, and stays so.
C25_StatusReset ==
    /\ [](Cardinality(widgets.timers) <= 1)
    /\ [][(widgets.status # "idle" /\ widgets'.status = "idle")
              => (widgets.shown_for >= ResetDelay /\ widgets'.status_timer = 0)]_vars
    /\ ([]<><<ShowStatusCalled>>_vars \/ <>[]StatusIdle)

\* C25 witness: a successful scan was shown and the display is idle again, its
\* timer cleared, 3 seconds after.
C25_BackToIdle ==
    /\ out.by = "gui" /\ out.msg = "clocked"
    /\ StatusIdle
    /\ widgets.shown_for = ResetDelay
    /\ widgets.activity_list # <<>>

\* The caller's session id is in the sessions map and, when a role is
\* required, the role of the session is that role.
Admits(w, role) ==
    /\ w.session_id # 0
    /\ \E x \in w.sessions : x.id = w.session_id /\ (role = "" \/ x.role = role)

Refusals == {"login", "no_permission"}

\* C26: a handler wrapped by login_required(role) runs its body only for a
\* session id that is in the sessions map, with the role when one is
\* required; a session id enters the map only by a login with the username
\* and the password of an account, and is never made twice; and so no
\* identity is added, updated or deleted from a browser whose session is not
\* in the map, as after its logout. (The statement of the claim.)
C26_SessionGating ==
    [][/\ (HandleAddUser(EnrolledCard, <<"X">>) /\ out'.msg \notin Refusals)
            => Admits(web, "admin")
       /\ (HandleAddAdmin("guest", "guest1", "viewer") /\ out'.msg \notin Refusals)
            => Admits(web, "admin")
       /\ (LoadDashboard /\ out'.msg \notin Refusals) => Admits(web, "")
       /\ \A kind \in {"edit", "delete"}, user \in users :
            (HandleOpenDialog(kind, user) /\ web'.dialog # web.dialog) => Admits(web, "admin")
       /\ \A x \in web'.sessions \ web.sessions :
            /\ x.id > web.issued
            /\ web'.session_id = x.id
            /\ \E a \in web.admin_users, password \in Passwords :
                  /\ a.username = x.username /\ a.role = x.role
                  /\ a.password_hash = hash_password(password)
                  /\ Login(a.username, password)
       /\ (pc["admin"] = "idle" /\ (users' # users \/ pc'["admin"] = "delete_events"))
            => Admits(web, "admin")]_vars

====
